---- MODULE Spec2Model ----
(***************************************************************************)
(* Sandbox resource lifecycle of the runner: the storage recovery saga     *)
(* (DockerClient.RecoverFromStorageLimit), the states cache it writes and  *)
(* the container engine it drives.                                         *)
(*                                                                         *)
(* Quotas are counted in integer units of the saga's increment (0.1 GB):   *)
(* a quota of 50 GB is 500.  The ceiling originalQuota * 0.1 is then       *)
(* originalQuota / 10 units, compared without division.                    *)
(***************************************************************************)
EXTENDS Integers, Sequences, FiniteSets, TLC

\* ------------------------------------------------------------------ bounds
MaxRuns == 3
BoundaryRuns == 102
MaxTime == 2
MaxCreateAttempts == 2
MaxClock == 4

\* --------------------------------------------------------- program constants
StopAttempts == 2
Increment == 1
Unset == -1
NoPath == 0

Sandboxes == {"s1", "s2"}
Procs == {"p1", "p2"}
Times == 1..MaxTime
Files == {"a", "b"}
OrigQuotas == {5, 10, 20}
BoundaryQuotas == {5, 500, 1000}

\* Container names: <<id, 0>> is the canonical identifier of sandbox id,
\* <<id, t>> the alias "<id>-recovery-<t>".
Canonical(sandboxId) == <<sandboxId, 0>>
RecoveryName(sandboxId, timestamp) == <<sandboxId, timestamp>>
Names == Sandboxes \X (0..MaxTime)

\* The engine's answer for a name no container has.
Absent == [inst |-> 0, storageOpt |-> Unset, running |-> FALSE, upper |-> FALSE, data |-> {}]
Present(c) == c.inst # 0

VARIABLES
    sessions,         \* SessionService.sessions: the registered session ids
    sessionProcess,   \* session ids whose process tree is alive
    sessionCancelled, \* session ids whose context has been cancelled
    sessionDirs,      \* session ids whose directory exists
    del,              \* position and locals of the Delete call in progress
    cancelledAt, \* position at which each invocation's context was cancelled, if it was
    engine,      \* container engine: name -> container descriptor (or Absent)
    filesystem,  \* backing filesystem the engine reports in Info
    nextInst,    \* next container instance the engine creates
    now,         \* last value read from the clock (seconds)
    cache,       \* states cache: sandbox -> cached state
    origQuota,   \* the originalStorageQuota callers pass for each sandbox
    target,      \* the sandbox each caller recovers
    budget,      \* invocations each caller still makes
    pc,          \* position of each invocation in RecoverFromStorageLimit
    rc,          \* locals of each invocation
    result,      \* what the last invocation returned
    pre,         \* engine and cache as they were when the invocation began
    log,         \* engine mutations and cache writes the invocation issued
    succeeded,   \* per sandbox, invocations that returned nil
    mainPc,      \* position of main: "init", "serving", "shutdown", "exited", "failed"
    syncPc,      \* sandbox sync loop: "off", "waiting", "cycle", "stopped"
    syncTodo,    \* sandboxes the running cycle has listed and not yet fetched
    reachable,   \* whether the engine answers the sync loop
    lastCycle,   \* how the last finished cycle ended: "none", "ok", "failed"
    drifted,     \* per sandbox, engine or cache changed since the last cycle began
    staleAtStart,\* per sandbox, cached Started but engine stopped when the cycle began
    everFailed,  \* some cycle could not reach the engine
    inFlightAtCancel, \* a cycle was in flight when main cancelled and has not ended yet
    lastUpdated, \* states cache: sandbox -> time of the last set
    retention,   \* states cache: retention window (cfg.CacheRetentionDays)
    pruned,      \* records prune has removed, and whether prune was the last cache operation
    images,      \* images the engine holds
    imgCalls     \* the last RemoveImage calls, oldest first

\* What the saga alone reads and writes, and what the sync loop alone does.
sagaVars == <<filesystem, nextInst, now, origQuota, target, budget,
              pc, rc, result, pre, log, succeeded, cancelledAt>>
sync == <<mainPc, syncPc, syncTodo, reachable, lastCycle, drifted, staleAtStart, everFailed,
          inFlightAtCancel>>
\* What only the states cache keeps, and what only the image operations touch.
store == <<lastUpdated, retention, pruned>>
img == <<images, imgCalls>>
\* What only the session service touches.
sess == <<sessions, sessionProcess, sessionCancelled, sessionDirs, del>>
vars == <<engine, cache, sagaVars, sync, store, img, sess>>

\* ------------------------------------------------------------ engine calls
\* Outcomes of one engine round trip: a call of a kind in faults may fail
\* although its preconditions hold (engine unavailable, timeout).
EngineOps == {"inspect", "stop", "info", "rename", "create", "remove", "copy"}
Outcomes(faults, op) == IF op \in faults THEN {TRUE, FALSE} ELSE {TRUE}

\* The context of an invocation that was not cancelled, and the outcomes of an
\* engine round trip made with the context of invocation p: a call made with a
\* cancelled context returns the context's error and does nothing.
NotCancelled == "none"
Cancelled(p) == cancelledAt[p] # NotCancelled
CallOutcomes(p, faults, op) == IF Cancelled(p) THEN {FALSE} ELSE Outcomes(faults, op)

ContainerStopped(e, name) == [e EXCEPT ![name].running = FALSE]

CanRename(e, from, to) == Present(e[from]) /\ ~Present(e[to])
ContainerRenamed(e, from, to) == [e EXCEPT ![to] = e[from], ![from] = Absent]

CanCreate(e, name) == ~Present(e[name])
ContainerCreated(e, name, inst, size, up) ==
    [e EXCEPT ![name] = [inst |-> inst, storageOpt |-> size, running |-> FALSE,
                         upper |-> up, data |-> {}]]

ContainerRemoved(e, name) == [e EXCEPT ![name] = Absent]

\* The name under which the container instance inst exists, if any.
NamesOfInst(e, inst) == {n \in Names : Present(e[n]) /\ e[n].inst = inst}
LayerExists(e, inst) == inst # NoPath /\ NamesOfInst(e, inst) # {}
LayerData(e, inst) == (e[CHOOSE n \in NamesOfInst(e, inst) : TRUE]).data

\* rsync -aAX src/ dest/: the files of src added to dest; a run that fails
\* (error, timeout) has copied any part of them.
RsyncResults(e, src, dest, ok) ==
    IF ~(LayerExists(e, src) /\ LayerExists(e, dest)) THEN {}
    ELSE IF ok THEN {LayerData(e, dest) \cup LayerData(e, src)}
    ELSE {LayerData(e, dest) \cup part : part \in SUBSET LayerData(e, src)}
RsyncCopy(e, dest, newData) ==
    [n \in Names |-> IF Present(e[n]) /\ e[n].inst = dest
                     THEN [e[n] EXCEPT !.data = newData] ELSE e[n]]

\* ------------------------------------------------------- quota arithmetic
CurrentStorage(container) ==
    IF container.storageOpt = Unset THEN 0 ELSE container.storageOpt
CurrentExpansion(container, originalStorageQuota) ==
    CurrentStorage(container) - originalStorageQuota
NewExpansion(container, originalStorageQuota) ==
    CurrentExpansion(container, originalStorageQuota) + Increment
NewStorageQuota(container, originalStorageQuota) ==
    originalStorageQuota + NewExpansion(container, originalStorageQuota)
\* Variant: the ceiling taken as 20% of the original quota.
ExpansionExhaustedLax(container, originalStorageQuota) ==
    NewExpansion(container, originalStorageQuota) * 5 > originalStorageQuota
\* Variant: an expansion equal to the ceiling is refused too.
ExpansionExhaustedStrict(container, originalStorageQuota) ==
    NewExpansion(container, originalStorageQuota) * 10 >= originalStorageQuota
\* newExpansion > maxExpansion, maxExpansion = originalStorageQuota * 0.1
ExpansionExhausted(container, originalStorageQuota) ==
    NewExpansion(container, originalStorageQuota) * 10 > originalStorageQuota

\* ------------------------------------------------------------------- saga
NoContext == [sandboxId |-> "s1", originalStorageQuota |-> 0, originalContainer |-> Absent,
              newStorageQuota |-> 0, overlayDiffPath |-> NoPath, oldName |-> <<"s1", 0>>,
              newUpperDir |-> NoPath, tries |-> 0]

\* Side effect of a set on the states cache: the record's lastUpdated.
StoreTouched(s) ==
    /\ lastUpdated' = [lastUpdated EXCEPT ![s] = now]
    /\ pruned' = [pruned EXCEPT !.fresh = FALSE]
    /\ UNCHANGED retention

Call(op, name, ok) == [op |-> op, name |-> name, ok |-> ok]

Return(p, err) ==
    /\ pc' = [pc EXCEPT ![p] = "done"]
    /\ result' = [result EXCEPT ![p] = err]

Invoke(p) ==
    /\ pc[p] \in {"idle", "done"}
    /\ budget[p] > 0
    /\ budget' = [budget EXCEPT ![p] = @ - 1]
    /\ pc' = [pc EXCEPT ![p] = "inspect"]
    /\ rc' = [rc EXCEPT ![p] = [NoContext EXCEPT !.sandboxId = target[p],
                                   !.originalStorageQuota = origQuota[target[p]]]]
    /\ result' = [result EXCEPT ![p] = "running"]
    /\ pre' = [pre EXCEPT ![p] = [engine |-> engine, cache |-> cache]]
    /\ log' = [log EXCEPT ![p] = <<>>]
    /\ cancelledAt' = [cancelledAt EXCEPT ![p] = NotCancelled]
    /\ UNCHANGED <<engine, filesystem, sync, store, img, sess, nextInst, now, cache, origQuota,
                   target, succeeded>>


Sid(p) == rc[p].sandboxId
Logged(p, call) == log' = [log EXCEPT ![p] = Append(@, call)]

\* ContainerInspect of the sandbox's container.
SagaInspect(p, faults) ==
    /\ pc[p] = "inspect"
    /\ \E ok \in CallOutcomes(p, faults, "inspect") :
        IF ok /\ Present(engine[Canonical(Sid(p))])
        THEN /\ rc' = [rc EXCEPT ![p].originalContainer = engine[Canonical(Sid(p))]]
             /\ pc' = [pc EXCEPT ![p] = "validate"]
             /\ UNCHANGED result
        ELSE /\ Return(p, "inspect_failed")
             /\ UNCHANGED rc
    /\ UNCHANGED <<engine, filesystem, sync, store, img, sess, cancelledAt,
                   nextInst, now, cache, origQuota,
                   target, budget,
                   pre, log, succeeded>>

\* Variant: the running container is stopped before the ceiling is checked.
SagaValidateAfterStop(p) ==
    /\ pc[p] = "validate"
    /\ LET c == rc[p].originalContainer
           q == rc[p].originalStorageQuota
           name == Canonical(rc[p].sandboxId)
       IN IF ExpansionExhausted(c, q)
          THEN /\ Return(p, "exhausted")
               /\ engine' = IF c.running THEN ContainerStopped(engine, name) ELSE engine
               /\ log' = IF c.running
                         THEN [log EXCEPT ![p] = Append(@, Call("stop", name, TRUE))]
                         ELSE log
               /\ UNCHANGED rc
          ELSE /\ rc' = [rc EXCEPT ![p].newStorageQuota = NewStorageQuota(c, q),
                                   ![p].overlayDiffPath = IF c.upper THEN c.inst ELSE NoPath]
               /\ pc' = [pc EXCEPT ![p] = IF c.running THEN "stop" ELSE "info"]
               /\ UNCHANGED <<result, engine, log>>
    /\ UNCHANGED <<filesystem, sync, store, img, sess, cancelledAt,
                   nextInst, now, cache, origQuota, target, budget,
                   pre, succeeded>>

\* The derived values, the ceiling check and the old writable-layer path.
SagaValidate(p) ==
    /\ pc[p] = "validate"
    /\ LET c == rc[p].originalContainer
           q == rc[p].originalStorageQuota
       IN IF ExpansionExhausted(c, q)
          THEN /\ Return(p, "exhausted")
               /\ UNCHANGED rc
          ELSE /\ rc' = [rc EXCEPT ![p].newStorageQuota = NewStorageQuota(c, q),
                                   ![p].overlayDiffPath = IF c.upper THEN c.inst ELSE NoPath]
               /\ pc' = [pc EXCEPT ![p] = IF c.running THEN "stop" ELSE "info"]
               /\ UNCHANGED result
    /\ UNCHANGED <<engine, filesystem, sync, store, img, sess, cancelledAt,
                   nextInst, now, cache, origQuota,
                   target, budget,
                   pre, log, succeeded>>

\* One attempt of stopContainerWithRetry(ctx, sandboxId, 2).
SagaStop(p, faults) ==
    /\ pc[p] = "stop"
    /\ \E ok \in CallOutcomes(p, faults, "stop") :
        LET name == Canonical(Sid(p))
            good == ok /\ Present(engine[name])
        IN /\ Logged(p, Call("stop", name, good))
           /\ IF good
              THEN /\ engine' = ContainerStopped(engine, name)
                   /\ rc' = [rc EXCEPT ![p].tries = 0]
                   /\ pc' = [pc EXCEPT ![p] = "info"]
                   /\ UNCHANGED result
              ELSE /\ UNCHANGED engine
                   /\ IF rc[p].tries + 1 >= StopAttempts
                      THEN /\ rc' = [rc EXCEPT ![p].tries = 0]
                           /\ Return(p, "stop_failed")
                      ELSE /\ rc' = [rc EXCEPT ![p].tries = @ + 1]
                           /\ UNCHANGED <<pc, result>>
    /\ UNCHANGED <<filesystem, sync, store, img, sess, cancelledAt,
                   nextInst, now, cache, origQuota, target, budget,
                   pre, succeeded>>

\* apiClient.Info and the filesystem check.
SagaInfo(p, faults) ==
    /\ pc[p] = "info"
    /\ \E ok \in CallOutcomes(p, faults, "info") :
        IF ~ok THEN Return(p, "info_failed")
        ELSE IF filesystem # "xfs" THEN Return(p, "unsupported_fs")
        ELSE pc' = [pc EXCEPT ![p] = "rename"] /\ UNCHANGED result
    /\ UNCHANGED <<engine, filesystem, sync, store, img, sess, cancelledAt,
                   nextInst, now, cache, origQuota,
                   target, budget,
                   rc, pre, log, succeeded>>

\* Variant: a failed rename marks the sandbox Stopped before it returns.
SagaRenameFailedMarksStopped(p, faults) ==
    /\ pc[p] = "rename"
    /\ \E timestamp \in now..MaxTime, ok \in CallOutcomes(p, faults, "rename") :
        LET oldName == RecoveryName(Sid(p), timestamp)
            good == ok /\ CanRename(engine, Canonical(Sid(p)), oldName)
        IN /\ now' = timestamp
           /\ Logged(p, Call("rename", oldName, good))
           /\ IF good
              THEN /\ engine' = ContainerRenamed(engine, Canonical(Sid(p)), oldName)
                   /\ rc' = [rc EXCEPT ![p].oldName = oldName]
                   /\ pc' = [pc EXCEPT ![p] = "create"]
                   /\ UNCHANGED <<result, cache>>
              ELSE /\ Return(p, "rename_failed")
                   /\ cache' = [cache EXCEPT ![Sid(p)] = "stopped"]
                   /\ UNCHANGED <<engine, rc>>
    /\ UNCHANGED <<filesystem, sync, store, img, sess, cancelledAt,
                   nextInst, origQuota, target, budget, pre,
                   succeeded>>

\* Rename of the container to "<sandboxId>-recovery-<unix time>".
SagaRename(p, faults) ==
    /\ pc[p] = "rename"
    /\ \E timestamp \in now..MaxTime, ok \in CallOutcomes(p, faults, "rename") :
        LET oldName == RecoveryName(Sid(p), timestamp)
            good == ok /\ CanRename(engine, Canonical(Sid(p)), oldName)
        IN /\ now' = timestamp
           /\ Logged(p, Call("rename", oldName, good))
           /\ IF good
              THEN /\ engine' = ContainerRenamed(engine, Canonical(Sid(p)), oldName)
                   /\ rc' = [rc EXCEPT ![p].oldName = oldName]
                   /\ pc' = [pc EXCEPT ![p] = "create"]
                   /\ UNCHANGED result
              ELSE /\ Return(p, "rename_failed")
                   /\ UNCHANGED <<engine, rc>>
    /\ UNCHANGED <<filesystem, sync, store, img, sess, cancelledAt,
                   nextInst, cache, origQuota, target, budget,
                   pre, succeeded>>

\* Variant: the creation is retried until it succeeds.
SagaCreateUntilSuccess(p, faults) ==
    /\ pc[p] = "create"
    /\ \E ok \in CallOutcomes(p, faults, "create"), up \in BOOLEAN :
        LET name == Canonical(Sid(p))
            good == ok /\ CanCreate(engine, name)
        IN IF good
           THEN /\ Logged(p, Call("create", name, TRUE))
                /\ engine' = ContainerCreated(engine, name, nextInst,
                                              rc[p].newStorageQuota, up)
                /\ nextInst' = nextInst + 1
                /\ rc' = [rc EXCEPT ![p].tries = 0]
                /\ pc' = [pc EXCEPT ![p] = "markStopped"]
           ELSE /\ log' = [log EXCEPT ![p] =
                              IF @ # <<>> /\ @[Len(@)] = Call("create", name, FALSE)
                              THEN @ ELSE Append(@, Call("create", name, FALSE))]
                /\ rc' = [rc EXCEPT ![p].tries = (@ + 1) % MaxCreateAttempts]
                /\ UNCHANGED <<engine, nextInst, pc>>
    /\ UNCHANGED <<filesystem, sync, store, img, sess, cancelledAt, now, cache, origQuota, target,
                   budget, result, pre, succeeded>>

\* One attempt of the retried ContainerCreate under the canonical identifier.
SagaCreate(p, faults) ==
    /\ pc[p] = "create"
    /\ \E ok \in CallOutcomes(p, faults, "create"), up \in BOOLEAN :
        LET name == Canonical(Sid(p))
            good == ok /\ CanCreate(engine, name)
        IN /\ Logged(p, Call("create", name, good))
           /\ IF good
              THEN /\ engine' = ContainerCreated(engine, name, nextInst,
                                                 rc[p].newStorageQuota, up)
                   /\ nextInst' = nextInst + 1
                   /\ rc' = [rc EXCEPT ![p].tries = 0]
                   /\ pc' = [pc EXCEPT ![p] = "markStopped"]
              ELSE /\ UNCHANGED <<engine, nextInst>>
                   /\ IF rc[p].tries + 1 >= MaxCreateAttempts
                      THEN /\ rc' = [rc EXCEPT ![p].tries = 0]
                           /\ pc' = [pc EXCEPT ![p] = "createFailed"]
                      ELSE /\ rc' = [rc EXCEPT ![p].tries = @ + 1]
                           /\ UNCHANGED pc
    /\ UNCHANGED <<filesystem, sync, store, img, sess, cancelledAt,
                   now, cache, origQuota, target, budget,
                   result, pre, succeeded>>

\* Variant: the creation error is returned without renaming the old container back.
SagaCreateFailedNoRollback(p, faults) ==
    /\ pc[p] = "createFailed"
    /\ Return(p, "create_failed")
    /\ UNCHANGED <<engine, filesystem, sync, store, img, sess, cancelledAt,
                   nextInst, now, cache, origQuota,
                   target, budget,
                   rc, pre, log, succeeded>>

\* Variant: the failed creation marks the sandbox Stopped as a successful one does.
SagaCreateFailedMarksStopped(p, faults) ==
    /\ pc[p] = "createFailed"
    /\ \E ok \in CallOutcomes(p, faults, "rename") :
        LET good == ok /\ CanRename(engine, rc[p].oldName, Canonical(Sid(p)))
        IN /\ Logged(p, Call("rename", Canonical(Sid(p)), good))
           /\ engine' = IF good
                        THEN ContainerRenamed(engine, rc[p].oldName, Canonical(Sid(p)))
                        ELSE engine
    /\ cache' = [cache EXCEPT ![Sid(p)] = "stopped"]
    /\ Return(p, "create_failed")
    /\ UNCHANGED <<filesystem, sync, store, img, sess, cancelledAt,
                   nextInst, now, origQuota, target, budget,
                   rc, pre, succeeded>>

\* Creation failed: rename the old container back, its error discarded.
SagaCreateFailed(p, faults) ==
    /\ pc[p] = "createFailed"
    /\ \E ok \in CallOutcomes(p, faults, "rename") :
        LET good == ok /\ CanRename(engine, rc[p].oldName, Canonical(Sid(p)))
        IN /\ Logged(p, Call("rename", Canonical(Sid(p)), good))
           /\ engine' = IF good
                        THEN ContainerRenamed(engine, rc[p].oldName, Canonical(Sid(p)))
                        ELSE engine
    /\ Return(p, "create_failed")
    /\ UNCHANGED <<filesystem, sync, store, img, sess, cancelledAt,
                   nextInst, now, cache, origQuota, target, budget,
                   rc, pre, succeeded>>

\* Variant: an old writable-layer path that could not be determined is a
\* failure of the copy step.
SagaMarkStoppedStrictPath(p) ==
    /\ pc[p] = "markStopped"
    /\ cache' = [cache EXCEPT ![Sid(p)] = "stopped"]
    /\ StoreTouched(Sid(p))
    /\ IF rc[p].overlayDiffPath # NoPath
       THEN /\ log' = [log EXCEPT ![p] = Append(@, Call("set", Canonical(Sid(p)), TRUE))]
            /\ pc' = [pc EXCEPT ![p] = "copyInspect"]
       ELSE /\ log' = [log EXCEPT ![p] = Append(Append(@, Call("set", Canonical(Sid(p)), TRUE)),
                                                 Call("copy", Canonical(Sid(p)), FALSE))]
            /\ pc' = [pc EXCEPT ![p] = "copyFailed"]
    /\ UNCHANGED <<engine, filesystem, sync, img, sess, cancelledAt,
                   nextInst, now, origQuota, target, budget,
                   rc, result, pre, succeeded>>

\* Variant: Stopped is written only if the entry still holds the value it had
\* when the invocation began, so a write of the sync loop in between makes the
\* saga's write a no-op.
SagaMarkStoppedIfUnchanged(p) ==
    /\ pc[p] = "markStopped"
    /\ IF cache[Sid(p)] = pre[p].cache[Sid(p)]
       THEN /\ cache' = [cache EXCEPT ![Sid(p)] = "stopped"]
            /\ StoreTouched(Sid(p))
       ELSE UNCHANGED <<cache, store>>
    /\ Logged(p, Call("set", Canonical(Sid(p)), TRUE))
    /\ pc' = [pc EXCEPT ![p] = IF rc[p].overlayDiffPath # NoPath
                                THEN "copyInspect" ELSE "removeOld"]
    /\ UNCHANGED <<engine, filesystem, sync, img, sess, cancelledAt,
                   nextInst, now, origQuota, target, budget,
                   rc, result, pre, succeeded>>

\* Variant: Stopped is written for every sandbox of the cache.
SagaMarkStoppedAll(p) ==
    /\ pc[p] = "markStopped"
    /\ cache' = [s \in Sandboxes |-> "stopped"]
    /\ StoreTouched(Sid(p))
    /\ Logged(p, Call("set", Canonical(Sid(p)), TRUE))
    /\ pc' = [pc EXCEPT ![p] = IF rc[p].overlayDiffPath # NoPath
                                THEN "copyInspect" ELSE "removeOld"]
    /\ UNCHANGED <<engine, filesystem, sync, img, sess, cancelledAt,
                   nextInst, now, origQuota, target, budget,
                   rc, result, pre, succeeded>>

\* statesCache.SetSandboxState(ctx, sandboxId, SandboxStateStopped)
SagaMarkStopped(p) ==
    /\ pc[p] = "markStopped"
    /\ cache' = [cache EXCEPT ![Sid(p)] = "stopped"]
    /\ StoreTouched(Sid(p))
    /\ Logged(p, Call("set", Canonical(Sid(p)), TRUE))
    /\ pc' = [pc EXCEPT ![p] = IF rc[p].overlayDiffPath # NoPath
                                THEN "copyInspect" ELSE "removeOld"]
    /\ UNCHANGED <<engine, filesystem, sync, img, sess, cancelledAt,
                   nextInst, now, origQuota, target, budget,
                   rc, result, pre, succeeded>>

\* copyContainerOverlayData: inspect the new container for its UpperDir.
SagaCopyInspect(p, faults) ==
    /\ pc[p] = "copyInspect"
    /\ \E ok \in CallOutcomes(p, faults, "inspect") :
        LET newContainer == engine[Canonical(Sid(p))]
        IN IF ~(ok /\ Present(newContainer))
           THEN /\ Logged(p, Call("copy", Canonical(Sid(p)), FALSE))
                /\ pc' = [pc EXCEPT ![p] = "copyFailed"]
                /\ UNCHANGED rc
           ELSE IF ~newContainer.upper
           THEN pc' = [pc EXCEPT ![p] = "removeOld"] /\ UNCHANGED <<rc, log>>
           ELSE /\ rc' = [rc EXCEPT ![p].newUpperDir = newContainer.inst]
                /\ pc' = [pc EXCEPT ![p] = "rsync"]
                /\ UNCHANGED log
    /\ UNCHANGED <<engine, filesystem, sync, store, img, sess, cancelledAt,
                   nextInst, now, cache, origQuota,
                   target, budget,
                   result, pre, succeeded>>

\* copyContainerOverlayData: RsyncCopy under the five minute timeout.
SagaRsync(p, faults) ==
    /\ pc[p] = "rsync"
    /\ \E ok \in CallOutcomes(p, faults, "copy") :
        LET results == RsyncResults(engine, rc[p].overlayDiffPath, rc[p].newUpperDir, ok)
        IN IF results = {}
           THEN /\ Logged(p, Call("copy", Canonical(Sid(p)), FALSE))
                /\ pc' = [pc EXCEPT ![p] = "copyFailed"]
                /\ UNCHANGED engine
           ELSE /\ Logged(p, Call("copy", Canonical(Sid(p)), ok))
                /\ \E newData \in results :
                       engine' = RsyncCopy(engine, rc[p].newUpperDir, newData)
                /\ pc' = [pc EXCEPT ![p] = IF ok THEN "removeOld" ELSE "copyFailed"]
    /\ UNCHANGED <<filesystem, sync, store, img, sess, cancelledAt,
                   nextInst, now, cache, origQuota, target, budget,
                   rc, result, pre, succeeded>>

\* Variant: the compensation removes the renamed old container, not the new one.
SagaCopyFailedRemoveOld(p, faults) ==
    /\ pc[p] = "copyFailed"
    /\ \E ok \in CallOutcomes(p, faults, "remove") :
        LET good == ok /\ Present(engine[rc[p].oldName])
        IN /\ Logged(p, Call("remove", rc[p].oldName, good))
           /\ engine' = IF good THEN ContainerRemoved(engine, rc[p].oldName) ELSE engine
    /\ pc' = [pc EXCEPT ![p] = "copyFailedRename"]
    /\ UNCHANGED <<filesystem, sync, store, img, sess, cancelledAt,
                   nextInst, now, cache, origQuota, target, budget,
                   rc, result, pre, succeeded>>

\* The copy failed: force-remove the new container, the error discarded.
SagaCopyFailedRemove(p, faults) ==
    /\ pc[p] = "copyFailed"
    /\ \E ok \in CallOutcomes(p, faults, "remove") :
        LET good == ok /\ Present(engine[Canonical(Sid(p))])
        IN /\ Logged(p, Call("remove", Canonical(Sid(p)), good))
           /\ engine' = IF good THEN ContainerRemoved(engine, Canonical(Sid(p))) ELSE engine
    /\ pc' = [pc EXCEPT ![p] = "copyFailedRename"]
    /\ UNCHANGED <<filesystem, sync, store, img, sess, cancelledAt,
                   nextInst, now, cache, origQuota, target, budget,
                   rc, result, pre, succeeded>>

\* The copy failed: rename the old container back, the error discarded, and
\* return the copy error.
SagaCopyFailedRename(p, faults) ==
    /\ pc[p] = "copyFailedRename"
    /\ \E ok \in CallOutcomes(p, faults, "rename") :
        LET good == ok /\ CanRename(engine, rc[p].oldName, Canonical(Sid(p)))
        IN /\ Logged(p, Call("rename", Canonical(Sid(p)), good))
           /\ engine' = IF good
                        THEN ContainerRenamed(engine, rc[p].oldName, Canonical(Sid(p)))
                        ELSE engine
    /\ Return(p, "copy_failed")
    /\ UNCHANGED <<filesystem, sync, store, img, sess, cancelledAt,
                   nextInst, now, cache, origQuota, target, budget,
                   rc, pre, succeeded>>

\* Variant: Stopped is written once more at the conclusion.
SagaRemoveOldWritesAgain(p, faults) ==
    /\ pc[p] = "removeOld"
    /\ \E ok \in CallOutcomes(p, faults, "remove") :
        LET good == ok /\ Present(engine[rc[p].oldName])
        IN /\ log' = [log EXCEPT ![p] = Append(Append(@, Call("remove", rc[p].oldName, good)),
                                                Call("set", Canonical(Sid(p)), TRUE))]
           /\ engine' = IF good THEN ContainerRemoved(engine, rc[p].oldName) ELSE engine
    /\ cache' = [cache EXCEPT ![Sid(p)] = "stopped"]
    /\ Return(p, "nil")
    /\ succeeded' = [succeeded EXCEPT ![Sid(p)] = @ + 1]
    /\ UNCHANGED <<filesystem, sync, store, img, sess, cancelledAt,
                   nextInst, now, origQuota, target, budget,
                   rc, pre>>

\* Variant: a failed removal of the old container is tried once more.
SagaRemoveOldRetried(p, faults) ==
    /\ pc[p] = "removeOld"
    /\ \E ok \in CallOutcomes(p, faults, "remove") :
        LET good == ok /\ Present(engine[rc[p].oldName])
        IN /\ Logged(p, Call("remove", rc[p].oldName, good))
           /\ engine' = IF good THEN ContainerRemoved(engine, rc[p].oldName) ELSE engine
           /\ IF ~good /\ rc[p].tries = 0
              THEN /\ rc' = [rc EXCEPT ![p].tries = 1]
                   /\ UNCHANGED <<pc, result, succeeded>>
              ELSE /\ rc' = [rc EXCEPT ![p].tries = 0]
                   /\ Return(p, "nil")
                   /\ succeeded' = [succeeded EXCEPT ![Sid(p)] = @ + 1]
    /\ UNCHANGED <<filesystem, sync, store, img, sess, cancelledAt, nextInst, now, cache,
                   origQuota,
                   target, budget, pre>>

\* Variant: a failed removal of the old container fails the saga.
SagaRemoveOldFailureFails(p, faults) ==
    /\ pc[p] = "removeOld"
    /\ \E ok \in CallOutcomes(p, faults, "remove") :
        LET good == ok /\ Present(engine[rc[p].oldName])
        IN /\ Logged(p, Call("remove", rc[p].oldName, good))
           /\ engine' = IF good THEN ContainerRemoved(engine, rc[p].oldName) ELSE engine
           /\ Return(p, IF good THEN "nil" ELSE "remove_failed")
           /\ succeeded' = [succeeded EXCEPT ![Sid(p)] = IF good THEN @ + 1 ELSE @]
    /\ UNCHANGED <<filesystem, sync, store, img, sess, cancelledAt,
                   nextInst, now, cache, origQuota, target,
                   budget, rc, pre>>

\* Remove the old (renamed) container, a failure only logged, and return nil.
SagaRemoveOld(p, faults) ==
    /\ pc[p] = "removeOld"
    /\ \E ok \in CallOutcomes(p, faults, "remove") :
        LET good == ok /\ Present(engine[rc[p].oldName])
        IN /\ Logged(p, Call("remove", rc[p].oldName, good))
           /\ engine' = IF good THEN ContainerRemoved(engine, rc[p].oldName) ELSE engine
    /\ Return(p, "nil")
    /\ succeeded' = [succeeded EXCEPT ![Sid(p)] = @ + 1]
    /\ UNCHANGED <<filesystem, sync, store, img, sess, cancelledAt,
                   nextInst, now, cache, origQuota, target,
                   budget, rc, pre>>

\* The invoking operation cancels the context of invocation p while the
\* invocation is at some step.
Cancel(p) ==
    /\ pc[p] \notin {"idle", "done"}
    /\ ~Cancelled(p)
    /\ cancelledAt' = [cancelledAt EXCEPT ![p] = pc[p]]
    /\ UNCHANGED <<engine, filesystem, sync, store, img, sess, nextInst, now, cache, origQuota,
                   target, budget, pc, rc, result, pre, log, succeeded>>

\* RecoverFromStorageLimit, one step of invocation p.
Saga(p, faults) ==
    \/ Invoke(p)
    \/ SagaInspect(p, faults)
    \/ SagaValidate(p)
    \/ SagaStop(p, faults)
    \/ SagaInfo(p, faults)
    \/ SagaRename(p, faults)
    \/ SagaCreate(p, faults)
    \/ SagaCreateFailed(p, faults)
    \/ SagaMarkStopped(p)
    \/ SagaCopyInspect(p, faults)
    \/ SagaRsync(p, faults)
    \/ SagaCopyFailedRemove(p, faults)
    \/ SagaCopyFailedRename(p, faults)
    \/ SagaRemoveOld(p, faults)

\* ------------------------------------------------------------ initial states
\* The sync loop not started.
SyncOff ==
    /\ mainPc = "init"
    /\ syncPc = "off"
    /\ syncTodo = {}
    /\ reachable = TRUE
    /\ lastCycle = "none"
    /\ drifted = [s \in Sandboxes |-> FALSE]
    /\ staleAtStart = [s \in Sandboxes |-> FALSE]
    /\ everFailed = FALSE
    /\ inFlightAtCancel = FALSE

\* The states cache as GetStatesCache returns it, its records just written.
NoPrune == [removed |-> {}, fresh |-> FALSE]
StoreIdle ==
    /\ lastUpdated = [s \in Sandboxes |-> 1]
    /\ retention = 1
    /\ pruned = NoPrune

\* No image present, no image operation called.
\* No session registered and no Delete in progress.
SessionIds == {"x", "y"}
NoDelete == [pc |-> "idle", id |-> "x", result |-> "none", termFailed |-> FALSE,
             prev |-> "none"]
SessionsIdle ==
    /\ sessions = {}
    /\ sessionProcess = {}
    /\ sessionCancelled = {}
    /\ sessionDirs = {}
    /\ del = NoDelete

ImagesIdle ==
    /\ images = {}
    /\ imgCalls = <<>>

\* One sandbox with its container under the canonical identifier.
InitialContainers(quota) ==
    {[inst |-> 1, storageOpt |-> size, running |-> run, upper |-> up, data |-> Files] :
        size \in {quota, Unset}, run \in BOOLEAN, up \in BOOLEAN}

InitSaga(quotas, budgets) ==
    /\ SessionsIdle
    /\ cancelledAt = [p \in Procs |-> NotCancelled]
    /\ origQuota \in [Sandboxes -> quotas]
    /\ origQuota["s2"] = origQuota["s1"]
    /\ \E c \in InitialContainers(origQuota["s1"]) :
          engine = [n \in Names |-> IF n = Canonical("s1") THEN c ELSE Absent]
    /\ filesystem \in {"xfs", "ext4"}
    /\ nextInst = 2
    /\ now = 1
    /\ cache \in [Sandboxes -> {"started"}]
    /\ target = [p \in Procs |-> "s1"]
    /\ budget = budgets
    /\ pc = [p \in Procs |-> "idle"]
    /\ rc = [p \in Procs |-> NoContext]
    /\ result = [p \in Procs |-> "none"]
    /\ pre = [p \in Procs |-> [engine |-> engine, cache |-> cache]]
    /\ log = [p \in Procs |-> <<>>]
    /\ succeeded = [s \in Sandboxes |-> 0]
    /\ SyncOff
    /\ StoreIdle
    /\ ImagesIdle

\* Successive recovery attempts of one caller, every engine call fallible.
Init == InitSaga(OrigQuotas, [p \in Procs |-> IF p = "p1" THEN MaxRuns ELSE 0])
Next == \E p \in Procs : Saga(p, EngineOps)
Spec == Init /\ [][Next]_vars


\* One caller whose context may be cancelled at any step, the engine answering
\* every call made with a live context.
InitCancel ==
    /\ InitSaga({10}, [p \in Procs |-> IF p = "p1" THEN MaxRuns ELSE 0])
    /\ filesystem = "xfs"
NextCancel == \E p \in Procs : Saga(p, {}) \/ Cancel(p)
SpecCancel == InitCancel /\ [][NextCancel]_vars


\* One caller, every engine call fallible and the context cancellable, each
\* call returning: a step of an invocation that has begun is eventually taken.
SagaStep(p, faults) == pc[p] \notin {"idle", "done"} /\ Saga(p, faults)
InitLive == InitSaga({10}, [p \in Procs |-> IF p = "p1" THEN 2 ELSE 0])
NextLive == \E p \in Procs : Saga(p, EngineOps) \/ Cancel(p)
SpecLive == InitLive /\ [][NextLive]_vars /\ \A p \in Procs : WF_vars(SagaStep(p, EngineOps))


\* Two callers recovering two different sandboxes at once, each once, the one
\* sandbox running and the other stopped; the creation and the copy may fail,
\* so that both compensations run.
InitCross ==
    /\ SessionsIdle
    /\ cancelledAt = [p \in Procs |-> NotCancelled]
    /\ origQuota = [s \in Sandboxes |-> 10]
    /\ \E up \in [Sandboxes -> BOOLEAN] :
          engine = [n \in Names |->
                      IF n[2] # 0 THEN Absent
                      ELSE [inst |-> IF n[1] = "s1" THEN 1 ELSE 2,
                            storageOpt |-> origQuota[n[1]], running |-> n[1] = "s1",
                            upper |-> up[n[1]], data |-> Files]]
    /\ filesystem = "xfs"
    /\ nextInst = 3
    /\ now = 1
    /\ cache = [s \in Sandboxes |-> "started"]
    /\ target = [p \in Procs |-> IF p = "p1" THEN "s1" ELSE "s2"]
    /\ budget = [p \in Procs |-> 1]
    /\ pc = [p \in Procs |-> "idle"]
    /\ rc = [p \in Procs |-> NoContext]
    /\ result = [p \in Procs |-> "none"]
    /\ pre = [p \in Procs |-> [engine |-> engine, cache |-> cache]]
    /\ log = [p \in Procs |-> <<>>]
    /\ succeeded = [s \in Sandboxes |-> 0]
    /\ SyncOff
    /\ StoreIdle
    /\ ImagesIdle
NextCross == \E p \in Procs : Saga(p, {"create", "copy"})
SpecCross == InitCross /\ [][NextCross]_vars


\* Two callers recovering the same sandbox at once; of the engine calls only
\* the creation, which the saga itself retries, fails transiently.
InitConcurrent == InitSaga(OrigQuotas, [p \in Procs |-> 1])
NextConcurrent == \E p \in Procs : Saga(p, {"create"})
SpecConcurrent == InitConcurrent /\ [][NextConcurrent]_vars


\* A fresh sandbox recovered again and again by one caller, the engine
\* answering every call.
InitBoundary ==
    /\ InitSaga(BoundaryQuotas, [p \in Procs |-> IF p = "p1" THEN BoundaryRuns ELSE 0])
    /\ filesystem = "xfs"
    /\ engine[Canonical("s1")].storageOpt = origQuota["s1"]
NextBoundary ==
    \E p \in Procs :
        \/ Invoke(p)
        \/ SagaInspect(p, {})
        \/ SagaValidate(p)
        \/ SagaStop(p, {})
        \/ SagaInfo(p, {})
        \/ SagaRename(p, {})
        \/ SagaCreate(p, {})
        \/ SagaMarkStopped(p)
        \/ SagaCopyInspect(p, {})
        \/ SagaRsync(p, {})
        \/ SagaRemoveOld(p, {})
SpecBoundary == InitBoundary /\ [][NextBoundary]_vars


\* --------------------------------------------------- sandbox state sync
\* main starts the sandbox sync service (Interval: 10 seconds) and, on a
\* signal, cancels its context.  The loop itself follows the specification of
\* the reconciliation loop: every tick one cycle lists the sandboxes the engine
\* knows, fetches each one's live state and sets the cached state where it
\* differs; a cycle that cannot reach the engine is logged and given up, and
\* the loop waits for the next tick.
CacheStates == {"started", "stopped", "error"}
Observed(container) == IF container.running THEN "started" ELSE "stopped"
Known(e) == {s \in Sandboxes : Present(e[Canonical(s)])}

\* The sync loop's process is alive: main has not returned.
Alive == mainPc \in {"serving", "shutdown"}

\* sandboxSyncService.StartSyncProcess(ctx): returns at once, the loop runs on.
StartSyncProcess ==
    /\ mainPc = "init"
    /\ mainPc' = "serving"
    /\ syncPc' = "waiting"
    /\ UNCHANGED <<engine, cache, sagaVars, sess, store, img, syncTodo, reachable, lastCycle,
                   drifted, staleAtStart, everFailed, inFlightAtCancel>>

\* Signal received: cancel(), which returns at once.
MainCancel ==
    /\ mainPc = "serving"
    /\ mainPc' = "shutdown"
    /\ inFlightAtCancel' = (syncPc = "cycle")
    /\ UNCHANGED <<engine, cache, sagaVars, sess, store, img, syncPc, syncTodo, reachable,
                   lastCycle,
                   drifted, staleAtStart, everFailed>>

\* After cancel() main stops the monitor, the net rules manager and the API
\* server and returns; it waits for no goroutine, and the process ends.
MainExit ==
    /\ mainPc = "shutdown"
    /\ mainPc' = "exited"
    /\ UNCHANGED <<engine, cache, sagaVars, sess, store, img, syncPc, syncTodo, reachable,
                   lastCycle,
                   drifted, staleAtStart, everFailed, inFlightAtCancel>>

\* The API server fails: main logs the error and returns without cancelling.
MainApiServerError ==
    /\ mainPc = "serving"
    /\ mainPc' = "failed"
    /\ UNCHANGED <<engine, cache, sagaVars, sess, store, img, syncPc, syncTodo, reachable,
                   lastCycle,
                   drifted, staleAtStart, everFailed, inFlightAtCancel>>

\* Variant: a cycle that cannot list the sandboxes ends the loop.
SyncTickExitOnError ==
    /\ syncPc = "waiting"
    /\ mainPc = "serving"
    /\ IF reachable
       THEN /\ syncPc' = "cycle"
            /\ syncTodo' = Known(engine)
            /\ drifted' = [s \in Sandboxes |-> FALSE]
            /\ staleAtStart' = [s \in Sandboxes |->
                                   /\ s \in Known(engine)
                                   /\ cache[s] = "started"
                                   /\ ~engine[Canonical(s)].running]
            /\ UNCHANGED <<lastCycle, everFailed>>
       ELSE /\ syncPc' = "stopped"
            /\ lastCycle' = "failed"
            /\ everFailed' = TRUE
            /\ UNCHANGED <<syncTodo, drifted, staleAtStart>>
    /\ UNCHANGED <<engine, cache, sagaVars, sess, store, img, mainPc, reachable,
                   inFlightAtCancel>>

\* A tick: the cycle begins by listing the sandboxes known to the engine.
SyncTick ==
    /\ syncPc = "waiting"
    /\ mainPc = "serving"
    /\ IF reachable
       THEN /\ syncPc' = "cycle"
            /\ syncTodo' = Known(engine)
            /\ drifted' = [s \in Sandboxes |-> FALSE]
            /\ staleAtStart' = [s \in Sandboxes |->
                                   /\ s \in Known(engine)
                                   /\ cache[s] = "started"
                                   /\ ~engine[Canonical(s)].running]
            /\ UNCHANGED <<lastCycle, everFailed>>
       ELSE /\ lastCycle' = "failed"
            /\ everFailed' = TRUE
            /\ UNCHANGED <<syncPc, syncTodo, drifted, staleAtStart>>
    /\ UNCHANGED <<engine, cache, sagaVars, sess, store, img, mainPc, reachable,
                   inFlightAtCancel>>

\* Variant: the live state is fetched and compared but never written.
SyncOneNoWrite(s) ==
    /\ syncPc = "cycle"
    /\ Alive
    /\ s \in syncTodo
    /\ IF reachable /\ Present(engine[Canonical(s)])
       THEN /\ syncTodo' = syncTodo \ {s}
            /\ UNCHANGED <<syncPc, lastCycle, everFailed, inFlightAtCancel>>
       ELSE /\ syncTodo' = {}
            /\ syncPc' = "waiting"
            /\ lastCycle' = "failed"
            /\ everFailed' = TRUE
            /\ inFlightAtCancel' = FALSE
    /\ UNCHANGED <<engine, cache, sagaVars, sess, store, img, mainPc, reachable, drifted,
                   staleAtStart>>

\* The cycle fetches the live state of one listed sandbox and sets the cached
\* state if it differs.
SyncOne(s) ==
    /\ syncPc = "cycle"
    /\ Alive
    /\ s \in syncTodo
    /\ IF reachable /\ Present(engine[Canonical(s)])
       THEN /\ IF cache[s] # Observed(engine[Canonical(s)])
               THEN /\ cache' = [cache EXCEPT ![s] = Observed(engine[Canonical(s)])]
                    /\ StoreTouched(s)
               ELSE UNCHANGED <<cache, store>>
            /\ syncTodo' = syncTodo \ {s}
            /\ UNCHANGED <<syncPc, lastCycle, everFailed, inFlightAtCancel>>
       ELSE /\ syncTodo' = {}
            /\ syncPc' = "waiting"
            /\ lastCycle' = "failed"
            /\ everFailed' = TRUE
            /\ inFlightAtCancel' = FALSE
            /\ UNCHANGED <<cache, store>>
    /\ UNCHANGED <<engine, sagaVars, sess, img, mainPc, reachable, drifted, staleAtStart>>

\* Every listed sandbox has been fetched: the cycle is over.
SyncCycleEnd ==
    /\ syncPc = "cycle"
    /\ Alive
    /\ syncTodo = {}
    /\ syncPc' = "waiting"
    /\ lastCycle' = "ok"
    /\ inFlightAtCancel' = FALSE
    /\ UNCHANGED <<engine, cache, sagaVars, sess, store, img, mainPc, syncTodo, reachable,
                   drifted,
                   staleAtStart, everFailed>>

\* Between cycles the loop sees its context cancelled and ends.
SyncStop ==
    /\ syncPc = "waiting"
    /\ mainPc = "shutdown"
    /\ syncPc' = "stopped"
    /\ UNCHANGED <<engine, cache, sagaVars, sess, store, img, mainPc, syncTodo, reachable,
                   lastCycle,
                   drifted, staleAtStart, everFailed, inFlightAtCancel>>

\* Out of band: a container dies or is started behind the runner's back.
EngineDrift(s) ==
    /\ Present(engine[Canonical(s)])
    /\ engine' = [engine EXCEPT ![Canonical(s)].running = ~@]
    /\ drifted' = [drifted EXCEPT ![s] = TRUE]
    /\ UNCHANGED <<cache, sagaVars, sess, store, img, mainPc, syncPc, syncTodo, reachable,
                   lastCycle,
                   staleAtStart, everFailed, inFlightAtCancel>>

\* A lifecycle event writes the cached state directly.
ExternalSet(s, state) ==
    /\ mainPc \notin {"exited", "failed"}
    /\ cache[s] # state
    /\ cache' = [cache EXCEPT ![s] = state]
    /\ StoreTouched(s)
    /\ drifted' = [drifted EXCEPT ![s] = TRUE]
    /\ UNCHANGED <<engine, sagaVars, sess, img, mainPc, syncPc, syncTodo, reachable, lastCycle,
                   staleAtStart, everFailed, inFlightAtCancel>>

\* The engine becomes unreachable, or reachable again.
EngineReachability ==
    /\ reachable' = ~reachable
    /\ UNCHANGED <<engine, cache, sagaVars, sess, store, img, mainPc, syncPc, syncTodo, lastCycle,
                   drifted, staleAtStart, everFailed, inFlightAtCancel>>

\* Two sandboxes with their containers, no recovery running.
InitSync ==
    /\ SessionsIdle
    /\ cancelledAt = [p \in Procs |-> NotCancelled]
    /\ origQuota = [s \in Sandboxes |-> 20]
    /\ \E run \in [Sandboxes -> BOOLEAN] :
          engine = [n \in Names |->
                       IF n[2] = 0
                       THEN [inst |-> 1, storageOpt |-> 20, running |-> run[n[1]],
                             upper |-> TRUE, data |-> Files]
                       ELSE Absent]
    /\ filesystem = "xfs"
    /\ nextInst = 2
    /\ now = 1
    /\ cache \in [Sandboxes -> {"started", "stopped"}]
    /\ target = [p \in Procs |-> "s1"]
    /\ budget = [p \in Procs |-> 0]
    /\ pc = [p \in Procs |-> "idle"]
    /\ rc = [p \in Procs |-> NoContext]
    /\ result = [p \in Procs |-> "none"]
    /\ pre = [p \in Procs |-> [engine |-> engine, cache |-> cache]]
    /\ log = [p \in Procs |-> <<>>]
    /\ succeeded = [s \in Sandboxes |-> 0]
    /\ SyncOff
    /\ StoreIdle
    /\ ImagesIdle
NextSync ==
    \/ StartSyncProcess
    \/ MainCancel
    \/ MainExit
    \/ MainApiServerError
    \/ SyncTick
    \/ \E s \in Sandboxes : SyncOne(s)
    \/ SyncCycleEnd
    \/ SyncStop
    \/ \E s \in Sandboxes : EngineDrift(s)
    \/ \E s \in Sandboxes, state \in CacheStates : ExternalSet(s, state)
    \/ EngineReachability
SpecSync == InitSync /\ [][NextSync]_vars

\* One recovery of a sandbox while the sync loop runs and the container is
\* started or stopped out of band; the engine answers every call.
InitRace ==
    /\ InitSaga({20}, [p \in Procs |-> IF p = "p1" THEN 1 ELSE 0])
    /\ filesystem = "xfs"
    /\ engine[Canonical("s1")].storageOpt = origQuota["s1"]
NextRace ==
    \/ \E p \in Procs :
        \/ Invoke(p)
        \/ SagaInspect(p, {})
        \/ SagaValidate(p)
        \/ SagaStop(p, {})
        \/ SagaInfo(p, {})
        \/ SagaRename(p, {})
        \/ SagaCreate(p, {})
        \/ SagaMarkStopped(p)
        \/ SagaCopyInspect(p, {})
        \/ SagaRsync(p, {})
        \/ SagaRemoveOld(p, {})
    \/ StartSyncProcess
    \/ SyncTick
    \/ \E s \in Sandboxes : SyncOne(s)
    \/ SyncCycleEnd
    \/ \E s \in Sandboxes : EngineDrift(s)
SpecRace == InitRace /\ [][NextRace]_vars

\* --------------------------------------------------------- states cache
\* The cache GetStatesCache(cfg.CacheRetentionDays) returns, after the
\* specification of the state store: set overwrites the record and stamps it,
\* prune removes the records that are in a terminal state and older than the
\* retention window.  "none" is the absence of a record.
Terminal == {"destroyed"}
StoreStates == CacheStates \cup Terminal
NoRecord == "none"
Age(s) == now - lastUpdated[s]
Expired(s) == cache[s] \in Terminal /\ Age(s) > retention

\* set(sandboxId, state): overwrites unconditionally.
StoreSet(s, state) ==
    /\ cache' = [cache EXCEPT ![s] = state]
    /\ StoreTouched(s)
    /\ UNCHANGED <<engine, sagaVars, sess, sync, img>>

\* Variant: every record older than the retention window is removed, whatever
\* its state.
PruneAnyState ==
    /\ cache' = [s \in Sandboxes |->
                    IF cache[s] # NoRecord /\ Age(s) > retention THEN NoRecord ELSE cache[s]]
    /\ pruned' = [removed |-> pruned.removed \cup
                                {[state |-> cache[s], age |-> Age(s)] :
                                     s \in {t \in Sandboxes :
                                              cache[t] # NoRecord /\ Age(t) > retention}},
                  fresh |-> TRUE]
    /\ UNCHANGED <<engine, sagaVars, sess, sync, img, lastUpdated, retention>>

\* prune()
Prune ==
    /\ cache' = [s \in Sandboxes |-> IF Expired(s) THEN NoRecord ELSE cache[s]]
    /\ pruned' = [removed |-> pruned.removed \cup
                                {[state |-> cache[s], age |-> Age(s)] :
                                     s \in {t \in Sandboxes : Expired(t)}},
                  fresh |-> TRUE]
    /\ UNCHANGED <<engine, sagaVars, sess, sync, img, lastUpdated, retention>>

\* Time passes.
ClockTick ==
    /\ now < MaxClock
    /\ now' = now + 1
    /\ pruned' = [pruned EXCEPT !.fresh = FALSE]
    /\ UNCHANGED <<engine, cache, filesystem, nextInst, origQuota, target, budget, pc, rc,
                   result, pre, log, succeeded, sync, img, sess, cancelledAt, lastUpdated,
                   retention>>

\* A runner with no sandbox, no recovery running and the sync loop not started.
RunnerIdle ==
    /\ SessionsIdle
    /\ cancelledAt = [p \in Procs |-> NotCancelled]
    /\ origQuota = [s \in Sandboxes |-> 20]
    /\ engine = [n \in Names |-> Absent]
    /\ filesystem = "xfs"
    /\ nextInst = 2
    /\ now = 1
    /\ cache = [s \in Sandboxes |-> NoRecord]
    /\ target = [p \in Procs |-> "s1"]
    /\ budget = [p \in Procs |-> 0]
    /\ pc = [p \in Procs |-> "idle"]
    /\ rc = [p \in Procs |-> NoContext]
    /\ result = [p \in Procs |-> "none"]
    /\ pre = [p \in Procs |-> [engine |-> engine, cache |-> cache]]
    /\ log = [p \in Procs |-> <<>>]
    /\ succeeded = [s \in Sandboxes |-> 0]
    /\ SyncOff

\* An empty cache with a retention window of one or two units of time.
InitStore ==
    /\ RunnerIdle
    /\ lastUpdated = [s \in Sandboxes |-> 1]
    /\ retention \in {1, 2}
    /\ pruned = NoPrune
    /\ ImagesIdle
NextStore ==
    \/ \E s \in Sandboxes, state \in StoreStates : StoreSet(s, state)
    \/ Prune
    \/ ClockTick
SpecStore == InitStore /\ [][NextStore]_vars

\* ------------------------------------------------------------------ images
Images == {"img1", "img2"}
\* What apiClient.ImageRemove answers: nil and the image is gone, not-found for
\* an image the engine does not hold, a conflict for an image in use that is
\* not forced, or any other failure of the engine.
ImageRemoveErrors(held, imageName, force) ==
    IF imageName \in held
    THEN {"nil", "other"} \cup (IF force THEN {} ELSE {"conflict"})
    ELSE {"notfound", "other"}
IsNotFound(err) == err = "notfound"

\* Variant: a not-found answer is returned like any other error.
RemoveImageReturnsNotFound(err) == err
\* What RemoveImage returns for the engine's answer.
RemoveImageReturn(err) ==
    IF err # "nil"
    THEN IF IsNotFound(err) THEN "nil" ELSE err
    ELSE "nil"

\* The last two calls, oldest first.
LastTwo(calls) == IF Len(calls) > 2 THEN Tail(calls) ELSE calls

RemoveImage(imageName, force) ==
    /\ \E err \in ImageRemoveErrors(images, imageName, force) :
        /\ images' = IF err = "nil" THEN images \ {imageName} ELSE images
        /\ imgCalls' = LastTwo(Append(imgCalls,
                          [imageName |-> imageName, force |-> force,
                           held |-> imageName \in images, err |-> err,
                           ret |-> RemoveImageReturn(err)]))
    /\ UNCHANGED <<engine, cache, sagaVars, sess, sync, store>>

\* An image is pulled or built; the calls before it no longer count as the
\* last ones in a row.
ImagePulled(imageName) ==
    /\ imageName \notin images
    /\ images' = images \cup {imageName}
    /\ imgCalls' = <<>>
    /\ UNCHANGED <<engine, cache, sagaVars, sess, sync, store>>

InitImages ==
    /\ RunnerIdle
    /\ StoreIdle
    /\ images \in SUBSET Images
    /\ imgCalls = <<>>
NextImages ==
    \/ \E imageName \in Images, force \in BOOLEAN : RemoveImage(imageName, force)
    \/ \E imageName \in Images : ImagePulled(imageName)
SpecImages == InitImages /\ [][NextImages]_vars

\* ---------------------------------------------------------------- sessions
\* A session is registered with a running process, a live context and a
\* directory of its own.
SessionCreate(id) ==
    /\ del.pc = "idle"
    /\ id \notin sessions
    /\ sessions' = sessions \cup {id}
    /\ sessionProcess' = sessionProcess \cup {id}
    /\ sessionCancelled' = sessionCancelled \ {id}
    /\ sessionDirs' = sessionDirs \cup {id}
    /\ UNCHANGED <<engine, cache, sagaVars, sync, store, img, del>>

\* The session's process ends by itself.
ProcessExit(id) ==
    /\ id \in sessionProcess
    /\ sessionProcess' = sessionProcess \ {id}
    /\ UNCHANGED <<engine, cache, sagaVars, sync, store, img,
                   sessions, sessionCancelled, sessionDirs, del>>

\* Delete: the lookup in the session map.
DeleteLookup(sessionId) ==
    /\ del.pc = "idle"
    /\ del' = [pc |-> IF sessionId \in sessions THEN "terminate" ELSE "idle",
               id |-> sessionId,
               result |-> IF sessionId \in sessions THEN "running" ELSE "not_found",
               termFailed |-> FALSE,
               prev |-> IF sessionId = del.id THEN del.result ELSE "none"]
    /\ UNCHANGED <<engine, cache, sagaVars, sync, store, img,
                   sessions, sessionProcess, sessionCancelled, sessionDirs>>

\* Delete: TerminateProcessTreeGracefully, an error only logged.
DeleteTerminate ==
    /\ del.pc = "terminate"
    /\ \E ok \in BOOLEAN :
        /\ sessionProcess' = IF ok THEN sessionProcess \ {del.id} ELSE sessionProcess
        /\ del' = [del EXCEPT !.pc = "cancel", !.termFailed = ~ok]
    /\ UNCHANGED <<engine, cache, sagaVars, sync, store, img,
                   sessions, sessionCancelled, sessionDirs>>

\* Delete: session.cancel().
DeleteCancel ==
    /\ del.pc = "cancel"
    /\ sessionCancelled' = sessionCancelled \cup {del.id}
    /\ del' = [del EXCEPT !.pc = "removeDir"]
    /\ UNCHANGED <<engine, cache, sagaVars, sync, store, img,
                   sessions, sessionProcess, sessionDirs>>

\* Variant: the session is taken out of the map whether or not its directory
\* could be removed.
DeleteRemoveDirAlwaysUnregisters ==
    /\ del.pc = "removeDir"
    /\ \E ok \in BOOLEAN :
        /\ sessionDirs' = IF ok THEN sessionDirs \ {del.id} ELSE sessionDirs
        /\ sessions' = sessions \ {del.id}
        /\ del' = [del EXCEPT !.pc = "idle",
                              !.result = IF ok THEN "nil" ELSE "bad_request"]
    /\ UNCHANGED <<engine, cache, sagaVars, sync, store, img,
                   sessionProcess, sessionCancelled>>

\* Delete: os.RemoveAll of the session directory; the session leaves the map
\* only when that succeeded.
DeleteRemoveDir ==
    /\ del.pc = "removeDir"
    /\ \E ok \in BOOLEAN :
        IF ok
        THEN /\ sessionDirs' = sessionDirs \ {del.id}
             /\ sessions' = sessions \ {del.id}
             /\ del' = [del EXCEPT !.pc = "idle", !.result = "nil"]
        ELSE /\ del' = [del EXCEPT !.pc = "idle", !.result = "bad_request"]
             /\ UNCHANGED <<sessions, sessionDirs>>
    /\ UNCHANGED <<engine, cache, sagaVars, sync, store, img,
                   sessionProcess, sessionCancelled>>

InitSessions ==
    /\ RunnerIdle
    /\ StoreIdle
    /\ ImagesIdle
NextSessions ==
    \/ \E id \in SessionIds : SessionCreate(id) \/ ProcessExit(id) \/ DeleteLookup(id)
    \/ DeleteTerminate
    \/ DeleteCancel
    \/ DeleteRemoveDir
SpecSessions == InitSessions /\ [][NextSessions]_vars

\* ------------------------------------------------------- claim vocabulary
Returned(p) == pc[p] = "done"
OldContainer(p) == rc[p].originalContainer
InstsOf(e) == {e[n].inst : n \in {m \in Names : Present(e[m])}}
\* Call c is among the calls invocation p has issued.
Issued(p, c) == \E i \in DOMAIN log[p] : log[p][i] = c
\* The old container still exists, under whatever name, with its pre-saga contents.
OldIntact(p) ==
    \E n \in Names : /\ Present(engine[n])
                     /\ engine[n].inst = OldContainer(p).inst
                     /\ engine[n].data = OldContainer(p).data
OldUnderAlias(p) ==
    /\ engine[rc[p].oldName].inst = OldContainer(p).inst
    /\ engine[rc[p].oldName].data = OldContainer(p).data
\* No container created since the invocation began is left in the engine.
NewRemoved(p) == InstsOf(engine) \subseteq InstsOf(pre[p].engine)
CanonicalIsOld(p) ==
    /\ Present(engine[Canonical(Sid(p))])
    /\ engine[Canonical(Sid(p))].inst = OldContainer(p).inst
CanonicalIsNew(p) ==
    /\ Present(engine[Canonical(Sid(p))])
    /\ engine[Canonical(Sid(p))].inst \notin InstsOf(pre[p].engine)
\* The run's copy step failed after the new container was created.
CopyFailedRun(p) == Returned(p) /\ Issued(p, Call("copy", Canonical(Sid(p)), FALSE))
CompRemoveOk(p) == Issued(p, Call("remove", Canonical(Sid(p)), TRUE))
CompRenameOk(p) == Issued(p, Call("rename", Canonical(Sid(p)), TRUE))
CompRenameFailed(p) == Issued(p, Call("rename", Canonical(Sid(p)), FALSE))
NoSideEffects(p) ==
    /\ engine = pre[p].engine
    /\ cache = pre[p].cache
    /\ log[p] = <<>>
\* Invocation p has renamed the old container away and has not returned yet.
InFlight(p) ==
    pc[p] \in {"create", "createFailed", "markStopped", "copyInspect", "rsync",
               "copyFailed", "copyFailedRename", "removeOld"}
\* The cache entry of sandbox s agrees with the live state of its container.
InSync(s) == cache[s] = Observed(engine[Canonical(s)])

\* ------------------------------------------------------------------ claims
\* C1 as stated: in every run whose copy step fails after the new container
\* was created, on return the old container's contents are as before the saga,
\* the new container has been removed, the canonical identifier resolves to the
\* old container, and the copy error is returned.
C1_RollbackInEveryRun ==
    \A p \in Procs : CopyFailedRun(p) =>
        /\ result[p] = "copy_failed"
        /\ OldIntact(p)
        /\ NewRemoved(p)
        /\ CanonicalIsOld(p)

\* C1 amended: in every run whose copy step fails the copy error is returned
\* and the old container keeps its pre-saga contents; the new container is gone
\* when the compensating remove succeeded, and the canonical identifier
\* resolves to the old container when the compensating remove and rename-back
\* both succeeded; otherwise the old container is left under its alias.
C1_NoDataLossOnCopyFailure ==
    \A p \in Procs : CopyFailedRun(p) =>
        /\ result[p] = "copy_failed"
        /\ OldIntact(p)
        /\ CompRemoveOk(p) => NewRemoved(p)
        /\ (CompRemoveOk(p) /\ CompRenameOk(p)) => CanonicalIsOld(p)
        /\ ~(CompRemoveOk(p) /\ CompRenameOk(p)) => (OldUnderAlias(p) /\ ~CanonicalIsOld(p))

\* C1 witness: a run whose copy failed was rolled back completely.
C1_RolledBack ==
    \E p \in Procs : /\ CopyFailedRun(p)
                     /\ Issued(p, Call("create", Canonical(Sid(p)), TRUE))
                     /\ CanonicalIsOld(p)
                     /\ NewRemoved(p)
                     /\ engine[Canonical(Sid(p))].data = Files

\* C2: the quota of the container bound to the canonical identifier never
\* exceeds originalQuota * 1.10, and no invocation gets past validation with a
\* newExpansion above originalQuota * 0.10.
C2_QuotaCeiling ==
    /\ \A s \in Sandboxes :
          Present(engine[Canonical(s)]) =>
              CurrentStorage(engine[Canonical(s)]) * 10 <= origQuota[s] * 11
    /\ \A p \in Procs :
          pc[p] \notin {"idle", "inspect", "validate", "done"} =>
              /\ (rc[p].newStorageQuota - rc[p].originalStorageQuota) * 10
                     <= rc[p].originalStorageQuota
              /\ rc[p].newStorageQuota * 10 <= rc[p].originalStorageQuota * 11

\* C2 witness: the quota has reached the ceiling exactly and a further attempt
\* was refused.
C2_CeilingReached ==
    \E p \in Procs :
        /\ Returned(p) /\ result[p] = "exhausted"
        /\ succeeded[Sid(p)] > 0
        /\ CurrentStorage(engine[Canonical(Sid(p))]) * 10 = origQuota[Sid(p)] * 11

\* C3 as stated: two invocations for the same sandbox are never both between
\* their rename and their return.
C3_AtMostOneInFlight ==
    \A p, q \in Procs : (p # q /\ Sid(p) = Sid(q)) => ~(InFlight(p) /\ InFlight(q))

\* C3 witness: two invocations for one sandbox are both past their rename,
\* each having renamed a container of that sandbox to an alias of its own.
C3_BothPastRename ==
    \E p, q \in Procs :
        /\ p # q /\ Sid(p) = Sid(q)
        /\ InFlight(p) /\ InFlight(q)
        /\ Issued(p, Call("rename", rc[p].oldName, TRUE))
        /\ Issued(q, Call("rename", rc[q].oldName, TRUE))
        /\ rc[p].oldName # rc[q].oldName

\* The copy step of invocation p ran to completion.
CopyPerformed(p) == Issued(p, Call("copy", Canonical(Sid(p)), TRUE))
NewQuotaOf(p) ==
    rc[p].originalStorageQuota
        + (CurrentStorage(OldContainer(p)) - rc[p].originalStorageQuota + Increment)

\* C4 as stated: whenever nil is returned the canonical identifier is bound to
\* a newly created container with the new quota, holding the prior data, and
\* the cached state is Stopped.
C4_NilMeansDataMigrated ==
    \A p \in Procs : (Returned(p) /\ result[p] = "nil") =>
        /\ CanonicalIsNew(p)
        /\ engine[Canonical(Sid(p))].storageOpt = NewQuotaOf(p)
        /\ engine[Canonical(Sid(p))].data = OldContainer(p).data
        /\ cache[Sid(p)] = "stopped"

\* C4 witness: nil was returned although the copy of a discoverable writable
\* layer was skipped; the canonical
\* identifier is bound to an empty new container and the old container, which
\* held the data, has been removed.
C4_DataLostOnNil ==
    \E p \in Procs :
        /\ Returned(p) /\ result[p] = "nil" /\ ~CopyPerformed(p)
        /\ CanonicalIsNew(p)
        /\ engine[Canonical(Sid(p))].data = {}
        /\ OldContainer(p).upper /\ OldContainer(p).data = Files
        /\ ~OldIntact(p)

\* C5 as stated: whatever engine calls fail, once the saga has returned the
\* canonical identifier is bound to a container that holds the sandbox's data,
\* the original one or a new one into which the copy completed.
C5_BindingSurvivesFailures ==
    \A p \in Procs : (Returned(p) /\ Present(OldContainer(p))) =>
        /\ Present(engine[Canonical(Sid(p))])
        /\ engine[Canonical(Sid(p))].data = OldContainer(p).data
        /\ CanonicalIsOld(p) \/ (CanonicalIsNew(p) /\ CopyPerformed(p))

\* C5 amended: a failed compensation or cleanup call is never what the saga
\* returns.  When nil is returned the canonical identifier is bound to the new
\* container, which holds the prior data when the copy was performed, also
\* when the removal of the old container failed.  A failed rename-back
\* after a creation failure leaves the canonical identifier unbound, and a
\* failed compensation after a copy failure leaves it unbound or bound to the
\* new container; in both the original container stays under its alias with
\* its contents.  Every other error leaves it bound to the original container.
C5_CompensationOutcome ==
    \A p \in Procs : (Returned(p) /\ Present(OldContainer(p))) =>
        /\ result[p] \in {"nil", "exhausted", "stop_failed", "info_failed",
                          "unsupported_fs", "rename_failed", "create_failed", "copy_failed"}
        /\ result[p] = "nil" => CanonicalIsNew(p)
        /\ (result[p] = "nil" /\ CopyPerformed(p)) =>
              engine[Canonical(Sid(p))].data = OldContainer(p).data
        /\ Issued(p, Call("remove", rc[p].oldName, FALSE)) =>
              (result[p] = "nil" /\ CanonicalIsNew(p) /\ OldUnderAlias(p))
        /\ result[p] = "create_failed" =>
              IF CompRenameOk(p) THEN CanonicalIsOld(p) /\ OldIntact(p)
              ELSE /\ CompRenameFailed(p)
                   /\ ~Present(engine[Canonical(Sid(p))])
                   /\ OldUnderAlias(p)
        /\ result[p] = "copy_failed" =>
              IF CompRemoveOk(p) /\ CompRenameOk(p) THEN CanonicalIsOld(p) /\ OldIntact(p)
              ELSE /\ OldUnderAlias(p)
                   /\ CompRemoveOk(p) => ~Present(engine[Canonical(Sid(p))])
                   /\ ~CompRemoveOk(p) => CanonicalIsNew(p)
        /\ result[p] \in {"exhausted", "stop_failed", "info_failed", "unsupported_fs",
                          "rename_failed"} => (CanonicalIsOld(p) /\ OldIntact(p))

\* C5 witness: the creation failed, the rename-back failed too, and the
\* creation error was returned with the canonical identifier left unbound.
C5_RenameBackFailed ==
    \E p \in Procs :
        /\ Returned(p) /\ result[p] = "create_failed" /\ CompRenameFailed(p)
        /\ ~Present(engine[Canonical(Sid(p))])
        /\ OldUnderAlias(p)

\* C6: when newExpansion > maxExpansion the saga returns the exhausted error
\* with the engine and the cache exactly as before the call and no stop,
\* rename, create, remove or cache write issued.
C6_ExhaustionFailsClosed ==
    \A p \in Procs :
        /\ (Returned(p) /\ Present(OldContainer(p))
               /\ (CurrentStorage(OldContainer(p)) - rc[p].originalStorageQuota + Increment) * 10
                      > rc[p].originalStorageQuota)
              => result[p] = "exhausted"
        /\ (Returned(p) /\ result[p] = "exhausted") => NoSideEffects(p)

\* C6 witness: an exhausted attempt on a running container returned with the
\* container still running.
C6_RefusedWhileRunning ==
    \E p \in Procs :
        /\ Returned(p) /\ result[p] = "exhausted"
        /\ engine[Canonical(Sid(p))].running
        /\ succeeded[Sid(p)] = 0

\* C7 as stated: when the filesystem is not XFS the saga returns the
\* unsupported-filesystem error with the engine and the cache exactly as
\* before the call and no stop, rename, create or remove issued.
C7_UnsupportedFsFailsClosed ==
    \A p \in Procs : (Returned(p) /\ result[p] = "unsupported_fs") => NoSideEffects(p)

\* C7 witness: the unsupported-filesystem error was returned for a sandbox
\* whose container was running at the call and has been stopped by it.
C7_StoppedThenRefused ==
    \E p \in Procs :
        /\ Returned(p) /\ result[p] = "unsupported_fs"
        /\ pre[p].engine[Canonical(Sid(p))].running
        /\ ~engine[Canonical(Sid(p))].running
        /\ Issued(p, Call("stop", Canonical(Sid(p)), TRUE))

\* C8: recoveries succeed exactly while newExpansion <= originalQuota * 0.10:
\* the attempt that is refused is the one after floor(originalQuota / 10
\* increments) successes, which is 50 for 50 GB, 100 for 100 GB and 0 for an
\* original quota whose tenth is below the increment.
C8_RejectionBoundary ==
    \A p \in Procs : Returned(p) =>
        LET n == succeeded[Sid(p)]
            q == origQuota[Sid(p)]
        IN /\ result[p] \in {"nil", "exhausted"}
           /\ CurrentStorage(engine[Canonical(Sid(p))]) = q + n
           /\ n * 10 <= q
           /\ result[p] = "exhausted" => q < (n + 1) * 10
           /\ (result[p] = "exhausted" /\ q = 500) => n = 50
           /\ (result[p] = "exhausted" /\ q = 1000) => n = 100
           /\ (result[p] = "exhausted" /\ q < 10) => n = 0

\* C8 witness: with an original quota of 100 GB the 101st attempt is refused
\* after exactly 100 successes.
C8_HundredThenRefused ==
    \E p \in Procs :
        /\ Returned(p) /\ result[p] = "exhausted"
        /\ origQuota[Sid(p)] = 1000
        /\ succeeded[Sid(p)] = 100
        /\ budget[p] = BoundaryRuns - 101

\* C9: a cycle that reached the engine leaves the cached state of every
\* sandbox the engine knows equal to its live state, unless that sandbox drifted
\* again after the cycle began; in particular an entry cached Started for a
\* stopped container is Stopped after the cycle.
C9_ReconciliationConverges ==
    \A s \in Sandboxes :
        /\ (syncPc \in {"waiting", "stopped"} /\ lastCycle = "ok"
               /\ s \in Known(engine) /\ ~drifted[s]) => InSync(s)
        /\ (syncPc = "cycle" /\ s \in Known(engine) /\ s \notin syncTodo /\ ~drifted[s])
              => InSync(s)
        /\ (syncPc = "waiting" /\ lastCycle = "ok" /\ staleAtStart[s] /\ ~drifted[s])
              => cache[s] = "stopped"

\* C9 witness: an entry that was Started for a stopped container when the
\* cycle began is Stopped when the cycle has finished.
C9_StaleEntryCorrected ==
    \E s \in Sandboxes :
        /\ syncPc = "waiting" /\ lastCycle = "ok"
        /\ staleAtStart[s] /\ ~drifted[s]
        /\ cache[s] = "stopped" /\ ~engine[Canonical(s)].running

\* C10: once main has started the sync process and until it cancels the
\* context, the loop is waiting for a tick or running a cycle, also after
\* cycles that could not reach the engine; a waiting loop can take its next
\* tick.
C10_LoopSurvivesEngineFailure ==
    /\ mainPc = "serving" => syncPc \in {"waiting", "cycle"}
    /\ (mainPc = "serving" /\ everFailed /\ syncPc = "waiting") => ENABLED SyncTick

\* C10 witness: after a cycle that could not reach the engine a later cycle
\* has corrected a stale entry.
C10_CorrectedAfterFailure ==
    \E s \in Sandboxes :
        /\ mainPc = "serving" /\ everFailed
        /\ syncPc = "waiting" /\ lastCycle = "ok"
        /\ staleAtStart[s] /\ ~drifted[s] /\ cache[s] = "stopped"

\* C11 as stated: once main has cancelled the loop's context no new cycle
\* starts, and a cycle that was in flight at the cancellation runs to its end:
\* the process does not end while that cycle is still in flight.
C11_StopIsCooperative ==
    /\ (mainPc \in {"shutdown", "exited"} /\ syncPc = "cycle") => inFlightAtCancel
    /\ mainPc = "exited" => ~inFlightAtCancel

\* C11 witness: main has cancelled during a cycle and returned while that
\* cycle still had sandboxes to fetch.
C11_CycleCutByExit ==
    /\ mainPc = "exited"
    /\ syncPc = "cycle"
    /\ inFlightAtCancel
    /\ syncTodo # {}

\* A step in which invocation p writes the states cache, and one in which the
\* sync loop has fetched sandbox s.
SagaWrites(p) == pc[p] = "markStopped" /\ pc'[p] # "markStopped"
SyncFetched(s) == s \in syncTodo /\ s \notin syncTodo' /\ syncPc' = "cycle"
OthersKept(s) == \A t \in Sandboxes \ {s} : cache'[t] = cache[t]

\* C12: the saga's and the sync loop's writes of one sandbox's entry take
\* effect one after the other, each overwriting the entry whole: after the
\* saga's write the entry is Stopped, after the loop's it is the state the loop
\* observed, whatever the other wrote before; an entry changes only by such a
\* write, so a later read returns the last one; and there is exactly one entry
\* per sandbox identifier, holding one of the states.
C12_LastWriteWins ==
    [][ /\ DOMAIN cache' = Sandboxes
        /\ \A s \in Sandboxes : cache'[s] \in CacheStates
        /\ \A p \in Procs : SagaWrites(p) => (cache'[Sid(p)] = "stopped" /\ OthersKept(Sid(p)))
        /\ \A s \in Sandboxes :
              SyncFetched(s) => (cache'[s] = Observed(engine[Canonical(s)]) /\ OthersKept(s))
        /\ cache' # cache =>
              \/ \E p \in Procs : SagaWrites(p)
              \/ \E s \in Sandboxes : SyncFetched(s)
      ]_vars

\* C12 witness: the saga wrote Stopped for its sandbox, the new container was
\* then started out of band, and the sync loop's later write stands.
C12_LoopWroteAfterSaga ==
    \E p \in Procs :
        /\ Issued(p, Call("set", Canonical(Sid(p)), TRUE))
        /\ CanonicalIsNew(p)
        /\ engine[Canonical(Sid(p))].running
        /\ cache[Sid(p)] = "started"
        /\ mainPc = "serving"

\* C13: every record prune has removed was in a terminal state and older than
\* the retention window when it was removed, so no record in another state
\* and no record set within the window has been removed; and right after a
\* prune no record that is terminal and older than the window is left.
C13_PruneExact ==
    /\ \A r \in pruned.removed : r.state \in Terminal /\ r.age > retention
    /\ pruned.fresh => \A s \in Sandboxes : ~Expired(s)
    /\ \A s \in Sandboxes :
          (cache[s] = NoRecord /\ lastUpdated[s] > 1) => pruned.removed # {}

\* C13 witness: a prune has just removed one sandbox's expired Destroyed
\* record and kept the other sandbox's record, which is as old but not in a
\* terminal state.
C13_PrunedOneKeptOther ==
    \E s, t \in Sandboxes :
        /\ pruned.fresh /\ pruned.removed # {}
        /\ cache[s] = NoRecord /\ Age(s) > retention /\ lastUpdated[s] > 1
        /\ cache[t] \in CacheStates /\ Age(t) > retention

\* C14: RemoveImage returns nil when the engine removed the image and when the
\* engine reports not-found, and returns the engine's error in every other
\* case; after a call that returned nil the image is absent, and a second call
\* in a row on the same image, which the engine answers with not-found,
\* returns nil as well.
C14_RemoveImageIdempotent ==
    /\ \A i \in DOMAIN imgCalls :
          LET c == imgCalls[i]
          IN /\ c.err \in {"nil", "notfound"} => c.ret = "nil"
             /\ c.err \notin {"nil", "notfound"} => c.ret = c.err
             /\ ~c.held => c.err # "nil"
    /\ Len(imgCalls) > 0 =>
          (imgCalls[Len(imgCalls)].ret = "nil" =>
              imgCalls[Len(imgCalls)].imageName \notin images)
    /\ (/\ Len(imgCalls) = 2
        /\ imgCalls[1].imageName = imgCalls[2].imageName
        /\ imgCalls[1].ret = "nil"
        /\ imgCalls[2].err \in {"nil", "notfound"})
          => (imgCalls[2].err = "notfound" /\ imgCalls[2].ret = "nil")

\* C14 witness: the first call removed the image, the second one in a row found
\* it absent, and both returned nil.
C14_RemovedTwice ==
    /\ Len(imgCalls) = 2
    /\ imgCalls[1].imageName = imgCalls[2].imageName
    /\ imgCalls[1].held /\ imgCalls[1].err = "nil" /\ imgCalls[1].ret = "nil"
    /\ ~imgCalls[2].held /\ imgCalls[2].err = "notfound" /\ imgCalls[2].ret = "nil"

\* ------------------------------------------------- the saga's call sequence
CanonicalOf(p) == Canonical(Sid(p))
LastCall(p) == log[p][Len(log[p])]
IsAliasRename(p, c) == c.op = "rename" /\ c.name # CanonicalOf(p)
IsRenameBack(p, c) == c.op = "rename" /\ c.name = CanonicalOf(p)
IsRemoveNew(p, c) == c.op = "remove" /\ c.name = CanonicalOf(p)
IsRemoveOld(p, c) == c.op = "remove" /\ c.name # CanonicalOf(p)
IsCompensation(p, c) == IsRenameBack(p, c) \/ IsRemoveNew(p, c)
\* Position of a call among the saga's steps; compensations come after all.
StepOf(p, c) ==
    CASE c.op = "stop" -> 1
      [] IsAliasRename(p, c) -> 2
      [] c.op = "create" -> 3
      [] c.op = "set" -> 4
      [] c.op = "copy" -> 5
      [] IsRemoveOld(p, c) -> 6
      [] OTHER -> 7
SetIdx(p) == {i \in DOMAIN log[p] : log[p][i].op = "set"}
CreateAcked(p) == Issued(p, Call("create", CanonicalOf(p), TRUE))
\* The engine under every name but the sandbox's canonical identifier is as it
\* was when the invocation began.
OthersUntouched(p) ==
    \A n \in Names \ {CanonicalOf(p)} : engine[n] = pre[p].engine[n]

\* C15: when the stop or the rename to the alias fails, that error is returned
\* with no later engine mutation issued and the states cache not written; the
\* canonical identifier is bound to the original container, changed at most by
\* having been stopped.
C15_AbortAtStopOrRename ==
    \A p \in Procs : (Returned(p) /\ result[p] \in {"stop_failed", "rename_failed"}) =>
        /\ cache = pre[p].cache
        /\ CanonicalIsOld(p)
        /\ OthersUntouched(p)
        /\ engine[CanonicalOf(p)] \in
              {pre[p].engine[CanonicalOf(p)],
               [pre[p].engine[CanonicalOf(p)] EXCEPT !.running = FALSE]}
        /\ \A i \in DOMAIN log[p] :
              \/ log[p][i].op = "stop"
              \/ /\ i = Len(log[p])
                 /\ result[p] = "rename_failed"
                 /\ IsAliasRename(p, log[p][i]) /\ ~log[p][i].ok
        /\ result[p] = "stop_failed" =>
              (Len(log[p]) = StopAttempts /\ \A i \in DOMAIN log[p] : ~log[p][i].ok)

\* C15 witness: the container was running, was stopped, and the rename then
\* failed: the error is returned with the original container stopped under the
\* canonical identifier.
C15_RenameFailedAfterStop ==
    \E p \in Procs :
        /\ Returned(p) /\ result[p] = "rename_failed"
        /\ pre[p].engine[CanonicalOf(p)].running
        /\ ~engine[CanonicalOf(p)].running
        /\ CanonicalIsOld(p)
        /\ cache[Sid(p)] = "started"

\* C16 as stated: when the creation has failed on every attempt the creation
\* error is returned with the canonical identifier bound to the original
\* container, no container under the alias and the states cache not written.
C16_CreateFailureRestoresBinding ==
    \A p \in Procs : (Returned(p) /\ result[p] = "create_failed") =>
        /\ CanonicalIsOld(p)
        /\ ~Present(engine[rc[p].oldName])
        /\ cache = pre[p].cache

\* C16 amended: when the creation has failed on every attempt the saga issues
\* the rename-back, discards its error and returns the creation error with the
\* states cache not written; when the rename-back succeeded the canonical
\* identifier is bound to the original container and no container is under the
\* alias, and when it failed the original container stays under the alias and
\* the canonical identifier is bound to no container.
C16_CreateFailureCompensation ==
    \A p \in Procs : (Returned(p) /\ result[p] = "create_failed") =>
        /\ cache = pre[p].cache
        /\ SetIdx(p) = {}
        /\ ~CreateAcked(p)
        /\ IsRenameBack(p, LastCall(p))
        /\ IF CompRenameOk(p)
           THEN CanonicalIsOld(p) /\ OldIntact(p) /\ ~Present(engine[rc[p].oldName])
           ELSE ~Present(engine[CanonicalOf(p)]) /\ OldUnderAlias(p)

\* C16 witness: every creation attempt failed and the rename-back succeeded:
\* the original container is back under the canonical identifier.
C16_RenamedBack ==
    \E p \in Procs :
        /\ Returned(p) /\ result[p] = "create_failed" /\ CompRenameOk(p)
        /\ Issued(p, Call("create", CanonicalOf(p), FALSE))
        /\ CanonicalIsOld(p)
        /\ ~Present(engine[rc[p].oldName])
        /\ engine[CanonicalOf(p)].data = Files

\* C17: within one invocation the states cache is written at most once, the
\* value written is Stopped, and the write directly follows the acknowledged
\* creation and precedes the copy and every removal; an invocation without an
\* acknowledged creation leaves the cache as it was; no start is issued, so no
\* container runs that did not run when the invocation began.
C17_SingleCacheWrite ==
    \A p \in Procs : pc[p] # "idle" =>
        /\ Cardinality(SetIdx(p)) <= 1
        /\ \A i \in SetIdx(p) :
              /\ i > 1
              /\ log[p][i - 1] = Call("create", CanonicalOf(p), TRUE)
              /\ \A j \in DOMAIN log[p] : log[p][j].op \in {"copy", "remove"} => j > i
        /\ SetIdx(p) # {} => cache = [pre[p].cache EXCEPT ![Sid(p)] = "stopped"]
        /\ SetIdx(p) = {} => cache = pre[p].cache
        /\ (Returned(p) /\ ~CreateAcked(p)) => SetIdx(p) = {}
        /\ (CreateAcked(p) /\ pc[p] \notin {"create", "markStopped"}) => SetIdx(p) # {}
        /\ \A i \in DOMAIN log[p] :
              log[p][i].op \in {"stop", "rename", "create", "set", "copy", "remove"}
        /\ \A n \in Names :
              (Present(engine[n]) /\ engine[n].running) =>
                  \E m \in Names : /\ pre[p].engine[m].inst = engine[n].inst
                                   /\ pre[p].engine[m].running

\* C17 witness: Stopped was written after the creation, the copy then failed,
\* and the invocation has returned with that one write standing.
C17_MarkedThenCopyFailed ==
    \E p \in Procs :
        /\ Returned(p) /\ result[p] = "copy_failed"
        /\ Cardinality(SetIdx(p)) = 1
        /\ pre[p].cache[Sid(p)] = "started"
        /\ cache[Sid(p)] = "stopped"

\* C18: the calls of one invocation occur in the order validate, stop, rename
\* to the alias, create, mark Stopped, copy, remove old: the first call is
\* issued only when both validations (expansion ceiling and filesystem) have
\* passed; a step follows the previous one only when that returned
\* successfully, a call is repeated only after it failed, and compensating
\* calls follow only a failed creation or a failed copy.  The old container is
\* removed only after the copy step is over, and from a successful copy until
\* that removal the old and the new container both hold the data.
C18_StrictStepOrder ==
    \A p \in Procs : pc[p] # "idle" =>
        /\ log[p] # <<>> =>
              /\ ~ExpansionExhausted(OldContainer(p), rc[p].originalStorageQuota)
              /\ filesystem = "xfs"
        /\ \A i \in DOMAIN log[p] : i > 1 =>
              LET a == log[p][i - 1]
                  b == log[p][i]
              IN /\ StepOf(p, a) <= StepOf(p, b)
                 /\ StepOf(p, a) < StepOf(p, b) =>
                       \/ a.ok /\ ~IsCompensation(p, b)
                       \/ ~a.ok /\ a.op \in {"create", "copy"} /\ IsCompensation(p, b)
                 /\ (StepOf(p, a) = StepOf(p, b) /\ ~IsCompensation(p, b)) => ~a.ok
        /\ \A i \in DOMAIN log[p] : IsRemoveOld(p, log[p][i]) =>
              /\ SetIdx(p) # {}
              /\ \A j \in DOMAIN log[p] : log[p][j].op = "copy" => (j < i /\ log[p][j].ok)
        /\ (pc[p] = "removeOld" /\ CopyPerformed(p)) =>
              /\ OldUnderAlias(p)
              /\ CanonicalIsNew(p)
              /\ engine[CanonicalOf(p)].data = OldContainer(p).data

\* C18 witness: the running container has been stopped and the filesystem
\* validation, which is still to come, will refuse the recovery.
C18_StoppedBeforeFsCheck ==
    \E p \in Procs :
        /\ pc[p] = "info"
        /\ filesystem # "xfs"
        /\ pre[p].engine[CanonicalOf(p)].running
        /\ log[p] = <<Call("stop", CanonicalOf(p), TRUE)>>
        /\ ~engine[CanonicalOf(p)].running

\* Invocation p has issued the removal of the old, renamed container.
RemoveOldIssued(p) == \E i \in DOMAIN log[p] : IsRemoveOld(p, log[p][i])
CopyAttempted(p) == \E i \in DOMAIN log[p] : log[p][i].op = "copy"

\* C19: when the old container's writable-layer path was discoverable, the
\* removal of the old container is issued only after its contents were copied
\* into the new container's writable layer; a run in which they were not
\* copied returns an error and does not remove the old container.
C19_CopiedBeforeRemoval ==
    \A p \in Procs : (pc[p] # "idle" /\ OldContainer(p).upper) =>
        /\ RemoveOldIssued(p) => CopyPerformed(p)
        /\ (Returned(p) /\ CreateAcked(p) /\ ~CopyPerformed(p)) =>
              /\ result[p] # "nil"
              /\ OldIntact(p)

\* C19 witness: the old container exposed its writable layer, the new one did
\* not; nothing was copied, the old container was removed and nil returned,
\* leaving an empty container under the canonical identifier.
C19_RemovedUncopied ==
    \E p \in Procs :
        /\ Returned(p) /\ result[p] = "nil"
        /\ OldContainer(p).upper /\ OldContainer(p).data = Files
        /\ ~CopyAttempted(p)
        /\ CanonicalIsNew(p) /\ ~engine[CanonicalOf(p)].upper
        /\ engine[CanonicalOf(p)].data = {}
        /\ Issued(p, Call("remove", rc[p].oldName, TRUE))
        /\ ~OldIntact(p)

C21_RemoveFailureTolerated ==
    \A p \in Procs :
        (Returned(p) /\ Issued(p, Call("remove", rc[p].oldName, FALSE))
                     /\ IsRemoveOld(p, LastCall(p))) =>
            /\ result[p] = "nil"
            /\ CanonicalIsNew(p)
            /\ engine[CanonicalOf(p)].storageOpt = NewQuotaOf(p)
            /\ cache[Sid(p)] = "stopped"
            /\ OldUnderAlias(p)

\* C21 witness: the copy was performed, the removal of the old container was
\* refused, and nil has been returned with both containers in the engine.
C21_OrphanedAlias ==
    \E p \in Procs :
        /\ Returned(p) /\ result[p] = "nil"
        /\ CopyPerformed(p)
        /\ LastCall(p) = Call("remove", rc[p].oldName, FALSE)
        /\ OldUnderAlias(p) /\ CanonicalIsNew(p)
        /\ engine[CanonicalOf(p)].data = Files

\* Positions of an invocation that belong to steps 1-3 (stop, rename, create)
\* and to the copy step.
EarlySteps == {"stop", "info", "rename", "create", "createFailed"}
CopySteps == {"copyInspect", "rsync"}

\* C22: when the context is cancelled during stop, rename or create, the saga
\* returns with the canonical identifier bound to the original container, its
\* data intact, so that a later recovery attempt finds the container it needs.
C22_EarlyCancelIsSafe ==
    \A p \in Procs : (Returned(p) /\ cancelledAt[p] \in EarlySteps) =>
        /\ CanonicalIsOld(p)
        /\ engine[CanonicalOf(p)].data = OldContainer(p).data

\* C22 witness: the context was cancelled during the creation; the creation
\* and the rename-back both failed and the saga has returned with no container
\* under the canonical identifier, the original one left under the alias.
C22_UnboundAfterCancel ==
    \E p \in Procs :
        /\ Returned(p) /\ result[p] = "create_failed"
        /\ cancelledAt[p] = "create"
        /\ LastCall(p) = Call("rename", CanonicalOf(p), FALSE)
        /\ ~Present(engine[CanonicalOf(p)])
        /\ OldUnderAlias(p)

\* C23: when the context is cancelled during the copy step, the saga does not
\* return with the canonical identifier bound to a new container that holds
\* only part of the data while the old container is still under its alias.
C23_CopyCancelNotAbandoned ==
    \A p \in Procs : (Returned(p) /\ cancelledAt[p] \in CopySteps) =>
        ~(/\ CanonicalIsNew(p)
          /\ engine[CanonicalOf(p)].data # OldContainer(p).data
          /\ Present(engine[rc[p].oldName]))

\* C23 witness: the context was cancelled while rsync ran; one of the two files
\* had been copied, neither compensating call took effect, and the saga has
\* returned the copy error with the new container under the canonical
\* identifier and the old one under the alias.
C23_HalfCopiedUnresolved ==
    \E p \in Procs :
        /\ Returned(p) /\ result[p] = "copy_failed"
        /\ cancelledAt[p] = "rsync"
        /\ CanonicalIsNew(p)
        /\ engine[CanonicalOf(p)].data = {"a"}
        /\ OldUnderAlias(p)
        /\ ~CompRemoveOk(p) /\ ~CompRenameOk(p)

CallsOf(p, op) == {i \in DOMAIN log[p] : log[p][i].op = op}

\* C24: every invocation that has begun eventually returns, each engine call
\* returning; it makes at most StopAttempts stop calls, at most
\* MaxCreateAttempts create calls and at most one copy.
C24_SagaTerminates ==
    /\ [](\A p \in Procs :
            /\ Cardinality(CallsOf(p, "stop")) <= StopAttempts
            /\ Cardinality(CallsOf(p, "create")) <= MaxCreateAttempts
            /\ Cardinality(CallsOf(p, "copy")) <= 1)
    /\ \A p \in Procs : (pc[p] \notin {"idle", "done"}) ~> (pc[p] = "done")

\* C24 witness: an invocation has returned after using every stop attempt and
\* every create attempt it has.
C24_ReturnedAfterAllRetries ==
    \E p \in Procs :
        /\ Returned(p)
        /\ Cardinality(CallsOf(p, "stop")) = StopAttempts
        /\ Cardinality(CallsOf(p, "create")) = MaxCreateAttempts
        /\ result[p] # "running"

\* Invocation p takes a step; the positions at which it makes an engine call;
\* p stays where it is, to repeat the call it has just made.
StepBy(p) == pc'[p] # pc[p] \/ log'[p] # log[p] \/ rc'[p] # rc[p]
CallingSteps == {"inspect", "stop", "info", "rename", "create", "createFailed",
                 "copyInspect", "rsync", "copyFailed", "copyFailedRename", "removeOld"}
Repeats(p) == StepBy(p) /\ pc'[p] = pc[p]
\* A refusal for a permanent reason ends the invocation at once.
PermanentFailureReturns(p) ==
    /\ (pc[p] = "validate"
          /\ ExpansionExhausted(OldContainer(p), rc[p].originalStorageQuota)
          /\ StepBy(p)) => (pc'[p] = "done" /\ result'[p] = "exhausted")
    /\ (pc[p] = "info" /\ filesystem # "xfs" /\ StepBy(p)) => pc'[p] = "done"

NamesOf(s) == {n \in Names : n[1] = s}
OtherProcs(p) == Procs \ {p}
\* A step of p leaves alone every container of another sandbox, every other
\* sandbox's cache entry, and the other invocations.
ForeignKept(p) ==
    /\ \A n \in Names \ NamesOf(target[p]) : engine'[n] = engine[n]
    /\ \A s \in Sandboxes \ {target[p]} : cache'[s] = cache[s]
    /\ \A q \in OtherProcs(p) :
          /\ pc'[q] = pc[q] /\ rc'[q] = rc[q] /\ result'[q] = result[q]
          /\ log'[q] = log[q] /\ pre'[q] = pre[q]
\* What an invocation that ran alone would leave behind, given the outcomes of
\* its own calls: the result and, under the sandbox's names, the containers.
AloneOutcome(p) ==
    LET s == target[p]
        old == pre[p].engine[Canonical(s)]
        canon == engine[Canonical(s)]
        aliases == {n \in NamesOf(s) \ {Canonical(s)} : Present(engine[n])}
    IN /\ result[p] = IF ~CreateAcked(p) THEN "create_failed"
                      ELSE IF Issued(p, Call("copy", Canonical(s), FALSE)) THEN "copy_failed"
                      ELSE "nil"
       /\ aliases = {}
       /\ cache[s] = IF CreateAcked(p) THEN "stopped" ELSE pre[p].cache[s]
       /\ IF result[p] = "nil"
          THEN /\ canon.inst \notin {1, 2}
               /\ canon.storageOpt = old.storageOpt + Increment
               /\ canon.data = IF CopyPerformed(p) THEN Files ELSE {}
               /\ CopyPerformed(p) <=> (old.upper /\ canon.upper)
          ELSE canon = [old EXCEPT !.running = FALSE]

\* C26: a step of the saga for one sandbox changes no container and no cache
\* entry of another sandbox and nothing of the other invocation, and when the
\* saga returns its result and the sandbox's containers are what they would be
\* had it run alone, whatever the other saga did in between.
C26_CrossSandboxIndependence ==
    /\ [][\A p \in Procs : StepBy(p) => ForeignKept(p)]_vars
    /\ [](\A p \in Procs : Returned(p) => AloneOutcome(p))

\* C26 witness: both sagas have returned, one nil and one after compensating a
\* failed copy, while each was past its rename when the other made calls.
C26_BothReturned ==
    /\ Returned("p1") /\ result["p1"] = "nil" /\ CopyPerformed("p1")
    /\ Returned("p2") /\ result["p2"] = "copy_failed"
    /\ CanonicalIsNew("p1") /\ CanonicalIsOld("p2")
    /\ pre["p2"].engine[Canonical("s1")] # pre["p1"].engine[Canonical("s1")]
    /\ engine[Canonical("s1")] # pre["p2"].engine[Canonical("s1")]

\* C27: whenever the new container has been created, the quota set on it is
\* the current quota (0 when none is configured) plus the increment, and is
\* not smaller than the original quota.
C27_ExpansionNeverShrinks ==
    \A p \in Procs : CreateAcked(p) =>
        /\ rc[p].newStorageQuota = CurrentStorage(OldContainer(p)) + Increment
        /\ rc[p].newStorageQuota >= rc[p].originalStorageQuota

\* C27 witness: a container with no configured quota was recovered; the new
\* container under the canonical identifier has a quota of one increment,
\* below the sandbox's original quota.
C27_ShrunkToOneIncrement ==
    \E p \in Procs :
        /\ CreateAcked(p) /\ pc[p] = "markStopped"
        /\ OldContainer(p).storageOpt = Unset
        /\ CanonicalIsNew(p)
        /\ engine[CanonicalOf(p)].storageOpt = Increment
        /\ engine[CanonicalOf(p)].storageOpt < rc[p].originalStorageQuota

\* C28: Delete of an unknown id returns not-found and changes nothing.  For a
\* known id the process tree is terminated, then the context cancelled, then
\* the directory removed, whether or not the termination succeeded; the
\* session leaves the map only together with its directory, and when the
\* removal of the directory fails an error is returned with the session still
\* registered, so that the Delete can be called again.
C28_SessionDelete ==
    /\ [][/\ (del.pc = "idle" /\ del' # del /\ del'.id \notin sessions) =>
                /\ del'.pc = "idle" /\ del'.result = "not_found"
                /\ UNCHANGED <<sessions, sessionProcess, sessionCancelled, sessionDirs>>
          /\ (del.pc = "idle" /\ del' # del /\ del'.id \in sessions) =>
                del'.pc = "terminate"
          /\ del.pc = "terminate" /\ del' # del =>
                /\ del'.pc = "cancel"
                /\ UNCHANGED <<sessions, sessionCancelled, sessionDirs>>
          /\ del.pc = "cancel" /\ del' # del =>
                /\ del'.pc = "removeDir"
                /\ del.id \in sessionCancelled'
                /\ UNCHANGED <<sessions, sessionDirs>>
          /\ sessions \ sessions' # {} =>
                /\ del.pc = "removeDir" /\ del'.result = "nil"
                /\ sessions \ sessions' = {del.id}
                /\ del.id \notin sessionDirs'
          /\ (del.pc = "removeDir" /\ del'.result = "bad_request") =>
                /\ sessions' = sessions /\ del.id \in sessions'
                /\ sessionDirs' = sessionDirs
                /\ del'.pc = "idle"]_vars
    /\ [](/\ del.pc # "idle" => del.id \in sessions
          /\ (del.pc \in {"cancel", "removeDir"} /\ ~del.termFailed) =>
                del.id \notin sessionProcess
          /\ del.pc = "removeDir" => del.id \in sessionCancelled
          /\ del.result = "bad_request" => del.id \in sessions)

\* C28 witness: a Delete whose directory removal failed was called again for
\* the same session; the termination failed this time, the cleanup went on all
\* the same, and the session is gone from the map and its directory removed.
C28_DeletedOnRetry ==
    /\ del.pc = "idle" /\ del.result = "nil" /\ del.prev = "bad_request"
    /\ del.termFailed
    /\ del.id \notin sessions /\ del.id \notin sessionDirs
    /\ del.id \in sessionCancelled
    /\ del.id \in sessionProcess

====
